---- MODULE Spec2Model ----
(***************************************************************************)
(* Model of the crate bernoulli_numbers (src/src/lib.rs):                  *)
(*   EulerUpDown<T>  - Seidel's boustrophedon recurrence over two buffers  *)
(*   EvenBernoulli   - B_0, B_2, B_4, ... built on an owned EulerUpDown    *)
(*   factorial<T>    - the helper with its assertion n >= 0                *)
(***************************************************************************)
EXTENDS Integers, Sequences, FiniteSets, TLC

\* ------------------------------------------------------------------ bounds
\* calls of next on one stand-alone EulerUpDown<Mpz> instance
MaxEulerCalls == 14
\* calls of next on one EvenBernoulli instance
MaxBernCalls == 7
\* calls of next on the fixed-width EulerUpDown<uN> instance
MaxFixedCalls == 26
\* largest |n| handed to factorial
MaxFactN == 11

EulerIds == {"e1", "e2"}
BernIds == {"b1", "b2"}

\* F applied to the value of v, v being evaluated once (a `let` binding of
\* the code: the bound name holds a value, not an expression)
Bind(v, F(_)) == CHOOSE r \in {F(x) : x \in {v}} : TRUE

\* -------------------------------------------------------- Option and Vec
None == [some |-> FALSE]
Some(v) == [some |-> TRUE, val |-> v]

\* Vec::pop: the vector without its last element and that element, or None
VecPop(v) ==
  IF v = <<>> THEN [vec |-> v, item |-> None]
  ELSE [vec |-> SubSeq(v, 1, Len(v) - 1), item |-> Some(v[Len(v)])]

\* Vec::push
VecPush(v, x) == Append(v, x)

\* ------------------------------------------------------- element types T
\* T: Clone + One + AddAssign.  Mpz is the unbounded integer; uN is a
\* machine integer of N bits, held as little-endian limbs of 8 bits.
\* checks = the build's overflow-checks setting (debug: on, release: off).
MpzT == [kind |-> "Mpz", limbs |-> 0, checks |-> FALSE]
UintT(limbs, checks) == [kind |-> "uint", limbs |-> limbs, checks |-> checks]
LimbBase == 2 ^ 8

\* One::one()
One(T) ==
  IF T.kind = "Mpz" THEN 1
  ELSE [k \in 1..T.limbs |-> IF k = 1 THEN 1 ELSE 0]

\* the digits of a + b + carry from limb k on, followed by the carry out
RECURSIVE LimbSum(_, _, _, _)
LimbSum(a, b, k, carry) ==
  IF k > Len(a) THEN <<carry>>
  ELSE Bind(a[k] + b[k] + carry,
            LAMBDA s : <<s % LimbBase>> \o LimbSum(a, b, k + 1, s \div LimbBase))

\* accum += i: the stored sum and whether the addition overflowed T
AddAssign(T, accum, i) ==
  IF T.kind = "Mpz" THEN [val |-> accum + i, ovf |-> FALSE]
  ELSE Bind(LimbSum(accum, i, 1, 0),
            LAMBDA r : [val |-> SubSeq(r, 1, T.limbs), ovf |-> r[T.limbs + 1] # 0])

\* ------------------------------------------------------------ EulerUpDown
EulerDefault == [source |-> <<>>, sink |-> <<>>]

\* faulty variant: the buffers are not swapped
SwapBuffersDropped(st) == st

\* std::mem::swap(&mut self.source, &mut self.sink)
SwapBuffers(st) == [source |-> st.sink, sink |-> st.source]

\* faulty variant: the first element is read but left in source
TakeFirstPeek(st, T) ==
  IF st.source = <<>>
  THEN [source |-> st.source, sink |-> st.sink, accum |-> One(T), seeded |-> TRUE]
  ELSE [source |-> st.source, sink |-> VecPush(st.sink, st.source[Len(st.source)]),
        accum |-> st.source[Len(st.source)], seeded |-> FALSE]

\* faulty variant: the seed 1 is pushed into sink like a popped element
TakeFirstSeedPushed(st, T) ==
  Bind(VecPop(st.source), LAMBDA p :
    Bind(IF p.item.some THEN p.item.val ELSE One(T), LAMBDA a :
      [source |-> p.vec, sink |-> VecPush(st.sink, a), accum |-> a,
       seeded |-> ~p.item.some]))

\* let mut accum = match self.source.pop() { None => one, Some(a) => push a }
TakeFirst(st, T) ==
  Bind(VecPop(st.source), LAMBDA p :
    IF ~p.item.some
    THEN [source |-> p.vec, sink |-> st.sink, accum |-> One(T), seeded |-> TRUE]
    ELSE [source |-> p.vec, sink |-> VecPush(st.sink, p.item.val),
          accum |-> p.item.val, seeded |-> FALSE])

\* one pass of `while let Some(i) = self.source.pop()`: the loop is left when
\* pop yields None; else accum += i and sink.push(accum.clone()).
\* An overflowing += under overflow-checks panics and leaves the loop there.
EulerLoopStep(s, T) ==
  Bind(VecPop(s.source), LAMBDA p :
    IF ~p.item.some
    THEN [s EXCEPT !.source = p.vec, !.done = TRUE]
    ELSE Bind(AddAssign(T, s.accum, p.item.val), LAMBDA sum :
           IF sum.ovf /\ T.checks
           THEN [s EXCEPT !.source = p.vec, !.ovf = TRUE, !.panicked = TRUE,
                          !.done = TRUE]
           ELSE [s EXCEPT !.source = p.vec, !.sink = VecPush(@, sum.val),
                          !.accum = sum.val, !.iters = @ + 1,
                          !.ovf = @ \/ sum.ovf]))

\* the while loop, from the locals s to the locals it is left with
RECURSIVE EulerLoop(_, _)
EulerLoop(s, T) ==
  IF s.done THEN s ELSE Bind(EulerLoopStep(s, T), LAMBDA n : EulerLoop(n, T))

\* faulty variant: the closing push of the row is forgotten
FinalPushDropped(sink, accum) == sink

\* self.sink.push(accum)
FinalPush(sink, accum) == VecPush(sink, accum)

\* faulty variant: the returned value is popped from the drained source
EulerReturnPopped(source, item) == VecPop(source).item

\* Some(item)
EulerReturn(source, item) == Some(item)

\* EulerUpDown::next
EulerNext(st, T) ==
  Bind(TakeFirst(SwapBuffers(st), T), LAMBDA first :
    Bind(EulerLoop([source |-> first.source, sink |-> first.sink,
                    accum |-> first.accum, iters |-> 0, ovf |-> FALSE,
                    panicked |-> FALSE, done |-> FALSE], T), LAMBDA loop :
      LET item == first.accum
      IN IF loop.panicked
         THEN [state |-> [source |-> loop.source, sink |-> loop.sink],
               ret |-> None, iters |-> loop.iters, seeded |-> first.seeded,
               swapped |-> SwapBuffers(st), ovf |-> TRUE, panicked |-> TRUE]
         ELSE [state |-> [source |-> loop.source,
                          sink |-> FinalPush(loop.sink, loop.accum)],
               ret |-> EulerReturn(loop.source, item),
               iters |-> loop.iters, seeded |-> first.seeded,
               swapped |-> SwapBuffers(st), ovf |-> loop.ovf,
               panicked |-> FALSE]))

\* ------------------------------------------------------------------- Mpq
RECURSIVE Gcd(_, _)
Gcd(a, b) == IF b = 0 THEN a ELSE Bind(a % b, LAMBDA r : Gcd(b, r))

Abs(n) == IF n < 0 THEN -n ELSE n

\* the canonical form GMP keeps: lowest terms, positive denominator
MpqCanonical(num, den) ==
  Bind(Gcd(Abs(num), Abs(den)), LAMBDA g :
    LET s == IF den < 0 THEN -1 ELSE 1
    IN [num |-> s * (num \div g), den |-> s * (den \div g)])

\* Mpq::from(Mpz)
MpqFrom(z) == [num |-> z, den |-> 1]

\* Mpq / Mpq: panics on a zero divisor, else the canonical quotient
MpqDiv(x, y) ==
  IF y.num = 0 THEN [panicked |-> TRUE, val |-> x]
  ELSE Bind(<<x.num * y.den, x.den * y.num>>, LAMBDA nd :
         [panicked |-> FALSE, val |-> MpqCanonical(nd[1], nd[2])])

\* Mpz::pow
RECURSIVE MpzPow(_, _)
MpzPow(a, e) == IF e = 0 THEN 1 ELSE a * MpzPow(a, e - 1)

\* ---------------------------------------------------------- EvenBernoulli
BernDefault == [i |-> 0, power |-> 1, zs |-> EulerDefault]

\* faulty variant: plain next() is called, no term is skipped
EulerNthFirst(st, n, T) ==
  Bind(EulerNext(st, T), LAMBDA r : [state |-> r.state, ret |-> r.ret, adv |-> 1])

\* Iterator::nth(n) on the owned EulerUpDown: n + 1 calls of next, the
\* last one's value returned; it stops at the first None
RECURSIVE EulerNth(_, _, _)
EulerNth(st, n, T) ==
  Bind(EulerNext(st, T), LAMBDA r :
    IF n = 0 \/ ~r.ret.some
    THEN [state |-> r.state, ret |-> r.ret, adv |-> 1]
    ELSE Bind(EulerNth(r.state, n - 1, T), LAMBDA rest :
           [state |-> rest.state, ret |-> rest.ret, adv |-> rest.adv + 1]))

\* faulty variant: the magnitude grows but the sign is not flipped
NextIndexNoFlip(i) == i + IF i >= 0 THEN 2 ELSE -2

\* self.i = -(i + if i >= 0 { 2 } else { -2 })
NextIndex(i) == -(i + IF i >= 0 THEN 2 ELSE -2)

\* faulty variant: the multiplication of the power is left out
PowerStepSkipped(power) == power

\* faulty variant: the power is doubled, not multiplied by 4
PowerStepDoubled(power) == power * 2

\* self.power *= Mpz::from(4)
PowerStep(power) == power * 4

\* Mpq::from(i * z) / Mpq::from(a - b)  with b = a.pow(2)
BernTerm(i, z, a) ==
  Bind(MpzPow(a, 2), LAMBDA b :
    Bind(MpqFrom(i * z), LAMBDA x :
      Bind(MpqFrom(a - b), LAMBDA y : MpqDiv(x, y))))

\* faulty variant: i = 0 is not treated apart, the first call takes the
\* zigzag path as well
EvenNextNoSpecialCase(st) ==
  Bind(EulerNth(st.zs, 1, MpzT), LAMBDA nth :
    Bind(PowerStep(st.power), LAMBDA power :
      Bind(BernTerm(st.i, nth.ret.val, power), LAMBDA q :
        [state |-> [i |-> NextIndex(st.i), power |-> power, zs |-> nth.state],
         ret |-> IF q.panicked THEN None ELSE Some(q.val),
         branch |-> "div", adv |-> nth.adv, z |-> nth.ret.val, a |-> power,
         panicked |-> q.panicked])))

\* EvenBernoulli::next
EvenNext(st) ==
  LET i == st.i
      stepped == [st EXCEPT !.i = NextIndex(i)]
  IN IF i = 0
     THEN [state |-> stepped, ret |-> Some(MpqFrom(1)), branch |-> "one",
           adv |-> 0, z |-> 0, a |-> st.power, panicked |-> FALSE]
     ELSE Bind(EulerNth(st.zs, 1, MpzT), LAMBDA nth :
            IF ~nth.ret.some
            THEN [state |-> [stepped EXCEPT !.zs = nth.state], ret |-> None,
                  branch |-> "none", adv |-> nth.adv, z |-> 0, a |-> st.power,
                  panicked |-> FALSE]
            ELSE Bind(PowerStep(st.power), LAMBDA power :
                   Bind(BernTerm(i, nth.ret.val, power), LAMBDA q :
                     [state |-> [stepped EXCEPT !.zs = nth.state, !.power = power],
                      ret |-> IF q.panicked THEN None ELSE Some(q.val),
                      branch |-> "div", adv |-> nth.adv, z |-> nth.ret.val,
                      a |-> power, panicked |-> q.panicked])))

\* -------------------------------------------------------------- factorial
\* faulty variant: the assertion is dropped
AssertDropped(n) == TRUE

\* assert!(n >= Zero::zero())
AssertNonNegative(n) == n >= 0

\* while n > one
LoopGuard(n) == n > 1

\* faulty variant: n is decremented before the multiplication
LoopBodySwapped(n, r) == [n |-> n - 1, r |-> r * (n - 1)]

\* r *= n.clone(); n -= one.clone()
LoopBody(n, r) == [n |-> n - 1, r |-> r * n]

\* faulty variant: the buffers are one shared (static) state, aliased by all instances
Shared(heap, x, new) == [y \in DOMAIN heap |-> new]

\* each instance owns its own state: a call through &mut self writes the
\* fields of that instance only
Own(heap, x, new) == [heap EXCEPT ![x] = new]

\* -------------------------------------------------------------- variables
VARIABLES
  zig,      \* EulerIds -> the state (source, sink) of an EulerUpDown<Mpz>
  zout,     \* EulerIds -> the values returned by next so far
  zlast,    \* EulerIds -> loop iterations, seed path, buffers after the swap
            \*             of the last call
  bern,     \* BernIds -> the state (i, power, zs) of an EvenBernoulli
  bout,     \* BernIds -> the values returned by next so far
  blast,    \* BernIds -> branch, zigzag advances, z and power a of the last
            \*            call, and the zigzag advances of all calls
  fx,       \* the EulerUpDown<uN> instance: its T, state, returned values
  fac       \* the call of factorial: argument, position, locals n and r

vars == <<zig, zout, zlast, bern, bout, blast, fx, fac>>

NoCall == [iters |-> 0, seeded |-> FALSE, swapped |-> EulerDefault]

InitEuler ==
  /\ zig = [x \in EulerIds |-> EulerDefault]
  /\ zout = [x \in EulerIds |-> <<>>]
  /\ zlast = [x \in EulerIds |-> NoCall]

NoBernCall ==
  [branch |-> "no call", adv |-> 0, zcalls |-> 0, z |-> 0, a |-> 1,
   panicked |-> FALSE]

InitBern ==
  /\ bern = [b \in BernIds |-> BernDefault]
  /\ bout = [b \in BernIds |-> <<>>]
  /\ blast = [b \in BernIds |-> NoBernCall]

\* the doc example's element type: u64, 8 limbs
FixedIdle ==
  [T |-> UintT(8, FALSE), st |-> EulerDefault, out |-> <<>>, ovf |-> FALSE,
   panicked |-> FALSE]

FacIdle == [pc |-> "idle", arg |-> 0, n |-> 0, r |-> 0, mults |-> 0, ret |-> None]

Init == InitEuler /\ InitBern /\ fx = FixedIdle /\ fac = FacIdle

\* u8, u16, u32, u64, each built with and without overflow checks
FixedTypes == {UintT(l, c) : l \in {1, 2, 4, 8}, c \in BOOLEAN}

InitFixed ==
  /\ InitEuler /\ InitBern /\ fac = FacIdle
  /\ \E T \in FixedTypes : fx = [FixedIdle EXCEPT !.T = T]

InitFactorial ==
  /\ InitEuler /\ InitBern /\ fx = FixedIdle
  /\ \E n \in -MaxFactN..MaxFactN : fac = [FacIdle EXCEPT !.pc = "call", !.arg = n]

\* one call of next on the stand-alone instance x
EulerCall(x) ==
  /\ Len(zout[x]) < MaxEulerCalls
  /\ \E r \in {EulerNext(zig[x], MpzT)} :
        /\ zig' = Own(zig, x, r.state)
        /\ zout' = [zout EXCEPT ![x] = Append(@, r.ret)]
        /\ zlast' = [zlast EXCEPT ![x] = [iters |-> r.iters, seeded |-> r.seeded,
                                          swapped |-> r.swapped]]
  /\ UNCHANGED <<bern, bout, blast, fx, fac>>

\* one call of next on the EvenBernoulli instance b; a panicked call
\* (division by zero) unwinds and the instance is not advanced again
BernCall(b) ==
  /\ Len(bout[b]) < MaxBernCalls
  /\ ~blast[b].panicked
  /\ \E r \in {EvenNext(bern[b])} :
        /\ bern' = Own(bern, b, r.state)
        /\ bout' = [bout EXCEPT ![b] = IF r.panicked THEN @ ELSE Append(@, r.ret)]
        /\ blast' = [blast EXCEPT ![b] =
                       [branch |-> r.branch, adv |-> r.adv,
                        zcalls |-> @.zcalls + r.adv, z |-> r.z, a |-> r.a,
                        panicked |-> r.panicked]]
  /\ UNCHANGED <<zig, zout, zlast, fx, fac>>

\* one call of next on the EulerUpDown<uN> instance; a call that panics on
\* an overflowing += unwinds with the buffers as the loop left them
FixedCall ==
  /\ Len(fx.out) < MaxFixedCalls
  /\ ~fx.panicked
  /\ \E r \in {EulerNext(fx.st, fx.T)} :
        fx' = [fx EXCEPT !.st = r.state,
                         !.out = IF r.panicked THEN @ ELSE Append(@, r.ret),
                         !.ovf = @ \/ r.ovf,
                         !.panicked = r.panicked]
  /\ UNCHANGED <<zig, zout, zlast, bern, bout, blast, fac>>

\* factorial is entered: the assertion, then one and r
FactorialEnter ==
  /\ fac.pc = "call"
  /\ fac' = IF AssertNonNegative(fac.arg)
            THEN [fac EXCEPT !.pc = "loop", !.n = fac.arg, !.r = 1]
            ELSE [fac EXCEPT !.pc = "panicked"]
  /\ UNCHANGED <<zig, zout, zlast, bern, bout, blast, fx>>

\* one iteration of the while loop
FactorialIter ==
  /\ fac.pc = "loop"
  /\ LoopGuard(fac.n)
  /\ \E b \in {LoopBody(fac.n, fac.r)} :
        fac' = [fac EXCEPT !.n = b.n, !.r = b.r, !.mults = @ + 1]
  /\ UNCHANGED <<zig, zout, zlast, bern, bout, blast, fx>>

\* the loop is left and r returned
FactorialReturn ==
  /\ fac.pc = "loop"
  /\ ~LoopGuard(fac.n)
  /\ fac' = [fac EXCEPT !.pc = "done", !.ret = Some(fac.r)]
  /\ UNCHANGED <<zig, zout, zlast, bern, bout, blast, fx>>

Next ==
  \/ \E x \in EulerIds : EulerCall(x)
  \/ \E b \in BernIds : BernCall(b)

Spec == Init /\ [][Next]_vars

NextFixed == FixedCall

SpecFixed == InitFixed /\ [][NextFixed]_vars

NextFactorial == FactorialEnter \/ FactorialIter \/ FactorialReturn

SpecFactorial == InitFactorial /\ [][NextFactorial]_vars

\* ------------------------------------------------------- reference values
\* the Euler up/down numbers E_0 .. E_15 (OEIS A000111); EulerRef[n + 1] = E_n
EulerRef ==
  <<1, 1, 1, 2, 5, 16, 61, 272, 1385, 7936, 50521, 353792, 2702765, 22368256,
    199360981, 1903757312>>

Q(num, den) == [num |-> num, den |-> den]

\* the Bernoulli numbers B_0, B_2, .. B_16 in lowest terms; BernoulliRef[n + 1] = B_2n
BernoulliRef ==
  <<Q(1, 1), Q(1, 6), Q(-1, 30), Q(1, 42), Q(-1, 30), Q(5, 66), Q(-691, 2730),
    Q(7, 6), Q(-3617, 510)>>

\* n! by the ascending product 1 * 2 * .. * n
RECURSIVE FactorialRef(_)
FactorialRef(n) == IF n = 0 THEN 1 ELSE FactorialRef(n - 1) * n

\* the limbs v of a machine integer hold exactly the number n
RECURSIVE HoldsNumber(_, _, _)
HoldsNumber(v, k, n) ==
  IF k > Len(v) THEN n = 0
  ELSE v[k] = n % LimbBase /\ HoldsNumber(v, k + 1, n \div LimbBase)

\* ----------------------------------------------------------------- claims

\* C1: the n-th value (0-indexed) returned by consecutive calls of
\* EulerUpDown::next on a fresh instance is the n-th Euler up/down number:
\* 1, 1, 1, 2, 5, 16, 61, 272, 1385, 7936, ...
C1_EulerTermsCanonical ==
  \A x \in EulerIds : \A k \in 1..Len(zout[x]) : zout[x][k] = Some(EulerRef[k])

\* ten terms have been returned, the tenth being 7936
C1_Witness == \E x \in EulerIds : Len(zout[x]) >= 10 /\ zout[x][10] = Some(7936)

\* C2: the n-th value (0-indexed) returned by consecutive calls of
\* EvenBernoulli::next on a fresh instance is B_2n as a reduced fraction:
\* 1, 1/6, -1/30, 1/42, -1/30, 5/66, -691/2730, 7/6, ...
C2_BernoulliTermsCanonical ==
  \A b \in BernIds : \A k \in 1..Len(bout[b]) : bout[b][k] = Some(BernoulliRef[k])

\* seven terms have been returned, the seventh being -691/2730
C2_Witness ==
  \E b \in BernIds : Len(bout[b]) >= 7 /\ bout[b][7] = Some(Q(-691, 2730))

\* C3: neither producer signals exhaustion: every call of EulerUpDown::next
\* and of EvenBernoulli::next returns Some(term), and the branch
\* `None => return None` of EvenBernoulli::next is never taken.
C3_NeverExhausted ==
  /\ \A x \in EulerIds : \A k \in 1..Len(zout[x]) : zout[x][k].some
  /\ \A b \in BernIds : \A k \in 1..Len(bout[b]) : bout[b][k].some
  /\ \A b \in BernIds : blast[b].branch # "none"

\* both producers have been advanced past their first calls
C3_Witness ==
  /\ \E x \in EulerIds : Len(zout[x]) >= 5
  /\ \E b \in BernIds : Len(bout[b]) >= 3 /\ blast[b].branch = "div"

\* C4: for every element type T the interface of EulerUpDown admits (the
\* doc example's u64 included) no addition `accum += i` overflows, and
\* every returned term is the true Euler up/down number.
C4_FixedArithmeticExact ==
  /\ ~fx.ovf
  /\ ~fx.panicked
  /\ \A k \in 1..Len(fx.out) :
       k <= Len(EulerRef) =>
         fx.out[k].some /\ HoldsNumber(fx.out[k].val, 1, EulerRef[k])

\* C5: every call of next completes: the k-th call of EulerUpDown::next
\* leaves its while loop after at most k-1 iterations, k-1 being the length
\* of the row built by the previous call (call k builds a row of k
\* entries and drains source); every call of EvenBernoulli::next returns,
\* after two zigzag advances or, on the first call, none.
C5_CallsComplete ==
  /\ \A x \in EulerIds :
       LET k == Len(zout[x])
       IN /\ Len(zig[x].sink) = k
          /\ zig[x].source = <<>>
          /\ k >= 1 => zlast[x].iters <= k - 1
  /\ \A b \in BernIds :
       /\ ~blast[b].panicked
       /\ Len(bout[b]) = 1 => blast[b].adv = 0
       /\ Len(bout[b]) >= 2 => blast[b].adv = 2

\* a call has run its loop several times, and a Bernoulli call has advanced
\* its zigzag producer twice
C5_Witness ==
  /\ \E x \in EulerIds : Len(zout[x]) = 6 /\ zlast[x].iters = 4
  /\ \E b \in BernIds : Len(bout[b]) >= 2 /\ blast[b].adv = 2

\* an instance advanced alone n times from its default state
RECURSIVE SoloEuler(_)
SoloEuler(n) ==
  IF n = 0 THEN [state |-> EulerDefault, out |-> <<>>]
  ELSE Bind(SoloEuler(n - 1), LAMBDA prev :
         Bind(EulerNext(prev.state, MpzT), LAMBDA r :
           [state |-> r.state, out |-> Append(prev.out, r.ret)]))

RECURSIVE SoloBern(_)
SoloBern(n) ==
  IF n = 0 THEN [state |-> BernDefault, out |-> <<>>]
  ELSE Bind(SoloBern(n - 1), LAMBDA prev :
         Bind(EvenNext(prev.state), LAMBDA r :
           [state |-> r.state, out |-> Append(prev.out, r.ret)]))

\* C6: distinct instances are independent: in any interleaving, a call of
\* next on one instance (EulerUpDown or EvenBernoulli) leaves the whole
\* state of every other instance unchanged, and the called instance holds
\* the state and has returned the terms it has when advanced alone.
C6_Independent ==
  [][/\ \A x \in EulerIds :
          zout'[x] # zout[x] =>
            /\ \A y \in EulerIds \ {x} : zig'[y] = zig[y] /\ zout'[y] = zout[y]
            /\ bern' = bern /\ bout' = bout
            /\ zig'[x] = SoloEuler(Len(zout'[x])).state
            /\ zout'[x] = SoloEuler(Len(zout'[x])).out
     /\ \A b \in BernIds :
          bout'[b] # bout[b] =>
            /\ \A c \in BernIds \ {b} : bern'[c] = bern[c] /\ bout'[c] = bout[c]
            /\ zig' = zig /\ zout' = zout
            /\ bern'[b] = SoloBern(Len(bout'[b])).state
            /\ bout'[b] = SoloBern(Len(bout'[b])).out]_vars

\* the four instances have been advanced to four different positions
C6_Witness ==
  /\ Len(zout["e1"]) = 6 /\ Len(zout["e2"]) = 3
  /\ Len(bout["b1"]) = 4 /\ Len(bout["b2"]) = 2

\* C7: determinism: two independently constructed instances of the same
\* producer, each advanced N times, have returned identical sequences of N
\* terms and are in identical internal states.
C7_Deterministic ==
  /\ \A x, y \in EulerIds :
       Len(zout[x]) = Len(zout[y]) => zout[x] = zout[y] /\ zig[x] = zig[y]
  /\ \A b, c \in BernIds :
       Len(bout[b]) = Len(bout[c]) => bout[b] = bout[c] /\ bern[b] = bern[c]

\* both pairs of instances have been advanced the same number of times
C7_Witness ==
  /\ Len(zout["e1"]) = 8 /\ Len(zout["e2"]) = 8
  /\ Len(bout["b1"]) = 5 /\ Len(bout["b2"]) = 5

\* C8: for every n >= 0, factorial(n) returns n!
\* (factorial(0) = factorial(1) = 1, ..., factorial(7) = 5040).
C8_FactorialCorrect ==
  (fac.pc = "done" /\ fac.arg >= 0) => fac.ret = Some(FactorialRef(fac.arg))

\* factorial(7) has returned 5040
C8_Witness == fac.pc = "done" /\ fac.arg = 7 /\ fac.ret = Some(5040)

\* C9: factorial called with a negative argument stops at the assertion
\* before any multiplication and returns no value; with an argument >= 0
\* the assertion never fires.
C9_AssertionGuards ==
  /\ (fac.arg < 0 /\ fac.pc # "call") =>
       fac.pc = "panicked" /\ fac.mults = 0 /\ fac.ret = None
  /\ fac.arg >= 0 => fac.pc # "panicked"

\* the assertion has fired on a negative argument
C9_Witness == fac.pc = "panicked" /\ fac.arg < 0

\* C10 as stated: the first call of EulerUpDown::next on a fresh instance
\* returns 1 through the seed path and leaves sink = [1, 1], two entries.
C10_FirstCallLeavesTwo ==
  \A x \in EulerIds :
    Len(zout[x]) = 1 =>
      zout[x] = <<Some(1)>> /\ zlast[x].seeded /\ zig[x].sink = <<1, 1>>

\* C10 amended: the first call of EulerUpDown::next on a fresh instance
\* returns 1 through the seed path (the seed is not pushed at that point)
\* and leaves source empty and sink = [1], the one entry of the closing push.
C10_FirstCallLeavesOne ==
  \A x \in EulerIds :
    Len(zout[x]) = 1 =>
      /\ zout[x] = <<Some(1)>>
      /\ zlast[x].seeded
      /\ zig[x] = [source |-> <<>>, sink |-> <<1>>]

\* an instance has been advanced exactly once, through the seed path
C10_Witness == \E x \in EulerIds : Len(zout[x]) = 1 /\ zlast[x].seeded

\* C11 as stated: after n calls of EvenBernoulli::next on a fresh instance
\* (one step = one call) the stored power equals 4^n.
C11_PowerIsFourToCalls ==
  \A b \in BernIds : bern[b].power = 4 ^ Len(bout[b])

\* C11 amended: the first call does not multiply, so after n >= 1 calls the
\* stored power equals 4^(n-1) (4^n once the term of index n is produced),
\* and it is 1 before any call.
C11_PowerIsFourToIndex ==
  \A b \in BernIds :
    LET n == Len(bout[b])
    IN bern[b].power = IF n = 0 THEN 1 ELSE 4 ^ (n - 1)

\* four calls have been made and power is 4^3
C11_Witness == \E b \in BernIds : Len(bout[b]) = 4 /\ bern[b].power = 64

\* C12: buffer roles of EulerUpDown: in every call of next, right after the
\* swap, source holds the complete row built by the previous call and sink
\* is empty; when the call returns, source is empty and sink holds the newly
\* built row (one entry more than the row read). Hence between any two
\* calls source is empty, also in the producer owned by an EvenBernoulli.
C12_BufferRoles ==
  [][/\ \A x \in EulerIds :
          zout'[x] # zout[x] =>
            /\ zlast'[x].swapped = [source |-> zig[x].sink, sink |-> <<>>]
            /\ zig[x].source = <<>>
            /\ zig'[x].source = <<>>
            /\ Len(zig'[x].sink) = Len(zig[x].sink) + 1
     /\ \A b \in BernIds :
          bout'[b] # bout[b] =>
            /\ bern[b].zs.source = <<>>
            /\ bern'[b].zs.source = <<>>
            /\ Len(bern'[b].zs.sink) = Len(bern[b].zs.sink) + blast'[b].adv]_vars

\* a call has swapped in a row of five entries and built one of six
C12_Witness ==
  \E x \in EulerIds :
    /\ Len(zlast[x].swapped.source) = 5 /\ zlast[x].swapped.sink = <<>>
    /\ zig[x].source = <<>> /\ Len(zig[x].sink) = 6

\* the elements the last call of next on x took from source: the one before
\* the loop, unless the seed path was taken, and one per pass of the loop
Pops(x) == zlast[x].iters + IF zlast[x].seeded THEN 0 ELSE 1

\* C13: buffer growth of EulerUpDown is linear: after the k-th call of next
\* the combined length of source and sink is exactly k, and the next call
\* pops each of those k elements exactly once (k pops, source drained) and
\* reads nothing else.
C13_LinearGrowth ==
  /\ \A x \in EulerIds :
       LET k == Len(zout[x])
       IN /\ Len(zig[x].source) + Len(zig[x].sink) = k
          /\ k >= 1 =>
               /\ Len(zlast[x].swapped.source) = k - 1
               /\ Pops(x) = k - 1
               /\ zig[x].source = <<>>
  /\ \A b \in BernIds :
       Len(bern[b].zs.source) + Len(bern[b].zs.sink) = blast[b].zcalls

\* the seventh call has popped the six elements left by the sixth
C13_Witness ==
  \E x \in EulerIds :
    Len(zout[x]) = 7 /\ Pops(x) = 6 /\ Len(zig[x].sink) = 7

\* (-1)^n * 2n
IndexRef(n) == (IF n % 2 = 0 THEN 1 ELSE -1) * 2 * n

\* C14: index rule of EvenBernoulli: the value of i read by the n-th call of
\* next (0-indexed) is (-1)^n * 2n, i.e. 0, -2, 4, -6, 8, ...; each call
\* stores -(i + 2) if i >= 0 and -(i - 2) otherwise; i = 0 holds on the
\* first call only.
C14_IndexRule ==
  [][\A b \in BernIds :
       bout'[b] # bout[b] =>
         LET n == Len(bout[b])
             i == bern[b].i
         IN /\ i = IndexRef(n)
            /\ bern'[b].i = IF i >= 0 THEN -(i + 2) ELSE -(i - 2)
            /\ bern'[b].i = IndexRef(n + 1)
            /\ (i = 0) <=> (n = 0)]_vars

\* five calls have read 0, -2, 4, -6, 8 and the stored index is -10
C14_Witness == \E b \in BernIds : Len(bout[b]) = 5 /\ bern[b].i = -10

\* C15: every division performed by EvenBernoulli::next has a non-zero
\* denominator: whenever the branch i # 0 is taken, the power a after the
\* multiplication satisfies a >= 4, so a - a^2 is strictly negative, and no
\* call panics on a division by zero.
C15_DenominatorNonZero ==
  \A b \in BernIds :
    /\ ~blast[b].panicked
    /\ blast[b].branch = "div" =>
         /\ blast[b].a >= 4
         /\ blast[b].a - blast[b].a * blast[b].a < 0
         /\ blast[b].a = bern[b].power

\* a division by 256 - 256^2 has been performed
C15_Witness ==
  \E b \in BernIds : blast[b].branch = "div" /\ blast[b].a = 256

\* C16: two-for-one consumption: every call of EvenBernoulli::next other
\* than the first advances the owned EulerUpDown by exactly two terms,
\* discards the first and uses the second as z; after m >= 1 calls the
\* producer has been advanced 2(m-1) times, and the term of index n >= 1 is
\* built from the zigzag term of index 2n-1.
C16_TwoForOne ==
  \A b \in BernIds :
    LET m == Len(bout[b])
        n == m - 1
    IN m >= 1 =>
         \E solo \in {SoloEuler(2 * n)} :
           /\ blast[b].zcalls = 2 * n
           /\ bern[b].zs = solo.state
           /\ n = 0 => blast[b].adv = 0
           /\ n >= 1 =>
                /\ blast[b].adv = 2
                /\ solo.out[2 * n] = Some(blast[b].z)
                /\ blast[b].z = EulerRef[2 * n]
                /\ bout[b][m] =
                     Some(MpqCanonical(IndexRef(n) * blast[b].z,
                                       4 ^ n - (4 ^ n) * (4 ^ n)))

\* the call producing B_8 has used the zigzag term of index 7, 272
C16_Witness ==
  \E b \in BernIds :
    Len(bout[b]) = 5 /\ blast[b].z = 272 /\ blast[b].zcalls = 8

\* C17: the first call of EvenBernoulli::next on a fresh instance returns
\* the rational 1 and changes only the index i: power stays 1 and the owned
\* zigzag state (source, sink) stays empty; every later call changes both
\* the zigzag state and power.
C17_FirstCallFrame ==
  [][\A b \in BernIds :
       bout'[b] # bout[b] =>
         IF Len(bout[b]) = 0
         THEN /\ bout'[b] = <<Some(Q(1, 1))>>
              /\ blast'[b].branch = "one"
              /\ bern'[b].i # bern[b].i
              /\ bern'[b] = [bern[b] EXCEPT !.i = bern'[b].i]
              /\ bern'[b].power = 1
              /\ bern'[b].zs = EulerDefault
         ELSE /\ blast'[b].branch = "div"
              /\ bern'[b].power # bern[b].power
              /\ bern'[b].zs # bern[b].zs]_vars

\* the first call has returned 1 and left power and the zigzag state alone
C17_Witness ==
  \E b \in BernIds :
    /\ bout[b] = <<Some(Q(1, 1))>> /\ blast[b].branch = "one"
    /\ bern[b].power = 1 /\ bern[b].zs = EulerDefault

\* C18: for every n >= 1 the term of index n returned by
\* EvenBernoulli::next is non-zero and has the sign (-1)^(n+1): positive
\* for n = 1, negative for n = 2, ... (the sign is that of the numerator of
\* the reduced fraction, whose denominator is positive).
C18_SignsAlternate ==
  \A b \in BernIds : \A k \in 2..Len(bout[b]) :
    LET n == k - 1
        t == bout[b][k].val
    IN /\ bout[b][k].some
       /\ t.den > 0
       /\ t.num # 0
       /\ (t.num > 0) <=> (n % 2 = 1)

\* the terms of index 1 .. 6 have been returned: + - + - + -
C18_Witness ==
  \E b \in BernIds :
    /\ Len(bout[b]) >= 7
    /\ bout[b][2].val.num > 0 /\ bout[b][3].val.num < 0
    /\ bout[b][6].val.num > 0 /\ bout[b][7].val.num < 0

\* C19: look-ahead invariant of EulerUpDown.  Every call of next leaves a
\* non-empty sink; the value a call returns is the last element the
\* preceding call left in sink; and from the second call on the first
\* element of the rebuilt sink is the term the call has just returned.
C19_LookAhead ==
  [][\A x \in EulerIds :
       zout'[x] # zout[x] =>
         LET k == Len(zout'[x])
             ret == zout'[x][k]
         IN /\ zig'[x].sink # <<>>
            /\ zig'[x].source = <<>>
            /\ k >= 2 => /\ zig[x].sink # <<>>
                         /\ ret = Some(zig[x].sink[Len(zig[x].sink)])
                         /\ Some(zig'[x].sink[1]) = ret
            /\ k = 1 => ret = Some(zig'[x].sink[Len(zig'[x].sink)])
    ]_vars

\* the fifth call has returned 5, the last element of <<2, 4, 5, 5>>, and
\* has left the row 5 10 14 16 16, whose last element the sixth call will
\* return
C19_Witness ==
  \E x \in EulerIds :
    /\ Len(zout[x]) = 5
    /\ zout[x][5] = Some(5)
    /\ zlast[x].swapped.source = <<2, 4, 5, 5>>
    /\ zig[x].sink = <<5, 10, 14, 16, 16>>

====
